---------------------------- MODULE Spec2Model ----------------------------
(***************************************************************************)
(* A model of the G-machine (bit-gophers/merit-gmachine): the virtual CPU  *)
(* of gmachine.go (Machine.Load, Machine.Run, Machine.Fetch) and the       *)
(* tokenizer and assembler of assembler.go.                                *)
(*                                                                         *)
(* A Word is a Go uint64.  TLC's integers are 32 bits wide, so the model   *)
(* keeps a word of WordBits bits and does every register operation modulo  *)
(* 2^WordBits, as the Go code does modulo 2^64.                            *)
(***************************************************************************)
EXTENDS Integers, Sequences, FiniteSets, TLC

VARIABLES
    Memory,     \* Machine.Memory: the word array, indexed from 0
    A, I, P, X, Y,  \* Machine.A, I, P, X, Y
    Z,          \* Machine.Z
    Out,        \* the characters (code points) written to Machine.Out
    status,     \* where the caller of the machine stands: the last call and its result
    op,         \* the local variable op of Machine.Run: the word it fetched last as an
                \* instruction; 0 when no Run has fetched since the last call
    input,      \* tokenizer.input: the source text, a sequence of code points
    start, pos, \* tokenizer.start, tokenizer.pos: the lexeme is input[start:pos]
    line,       \* tokenizer.line
    result,     \* tokenizer.result: the tokens emitted so far
    terr,       \* tokenizer.err
    state,      \* the local variable state of tokenizer.Run: the state function called next
    tokens,     \* what Tokenize returned to Assemble
    argRequired,    \* the local variable argRequired of Assemble
    program,    \* the result program of Assemble
    aerr,       \* the error Assemble returns
    next,       \* the place in tokens of the loop of Assemble, from 1
    phase,      \* where a call of Assemble stands
    ferr,       \* the error AssembleFromFile returned to MainRun
    exit,       \* what MainRun returned: "none" until it does
    Debug,      \* Machine.Debug
    In,         \* Machine.In: the lines that can be read from it now, and whether
                \* it has ended behind them
    inReader    \* where a turn of the loop of Run stands in debug mode: at its
                \* "head", "reading" in inReader.ReadLine(), or past ReadLine, which
                \* returned a "line" or, at the end of the input, "EOF"

mvars == <<Memory, A, I, P, X, Y, Z, Out, status, op>>

tvars == <<input, start, pos, line, result, terr, state>>

avars == <<tokens, argRequired, program, aerr, next, phase>>

xvars == <<ferr, exit>>

dvars == <<Debug, In, inReader>>

vars == <<Memory, A, I, P, X, Y, Z, Out, status, op,
          input, start, pos, line, result, terr, state,
          tokens, argRequired, program, aerr, next, phase, ferr, exit,
          Debug, In, inReader>>

-----------------------------------------------------------------------------
(* Bounds of the model *)

\* Width of a Word in bits (64 in the program).
WordBits == 16

\* Number of words of Machine.Memory (DefaultMemSize = 1024 in the program).
MemSize == 3

-----------------------------------------------------------------------------
(* Words *)

WordMod == 2 ^ WordBits

MaxWord == WordMod - 1

Word == 0 .. MaxWord

\* w + 1 and w - 1 on a Go unsigned word: they wrap.
Inc(w) == (w + 1) % WordMod

\* A decrement that stops at zero.
Dec_Floors(w) == IF w = 0 THEN 0 ELSE w - 1

Dec(w) == (w + WordMod - 1) % WordMod

Add(v, w) == (v + w) % WordMod

\* The verb %c of fmt on a Word: the character with that code point, and the
\* replacement character U+FFFD for a word that is no code point of a
\* character: a surrogate half (U+D800 to U+DFFF) or a word above
\* utf8.MaxRune (U+10FFFF).
MaxRune == 1114111
SurrogateMin == 55296
SurrogateMax == 57343
RuneError == 65533

FormatC(w) ==
    IF w > MaxRune \/ w \in SurrogateMin .. SurrogateMax THEN RuneError ELSE w

\* An input stream nothing can be read from yet.
NoInput == [lines |-> 0, closed |-> FALSE]

-----------------------------------------------------------------------------
(* Opcodes: const ( OpHALT OpCode = iota + 1 ... ) *)

OpHALT == 1
OpNOOP == 2
OpINCA == 3
OpDECA == 4
OpSETA == 5
OpSETI == 6
OpDECI == 7
OpJINZ == 8
OpMVAY == 9
OpADXY == 10
OpMVAX == 11
OpMVYA == 12
OpOUTA == 13
OpJUMP == 14
OpINCI == 15
OpLDAI == 16
OpCMPI == 17
OpJNEQ == 18

OpCodes == {OpHALT, OpNOOP, OpINCA, OpDECA, OpSETA, OpSETI, OpDECI, OpJINZ,
            OpMVAY, OpADXY, OpMVAX, OpMVYA, OpOUTA, OpJUMP, OpINCI, OpLDAI,
            OpCMPI, OpJNEQ}

\* func (o OpCode) RequiresArgument() bool
RequiresArgument(o) == o \in {OpSETA, OpSETI, OpJUMP, OpJNEQ}

-----------------------------------------------------------------------------
(* The machine: type Machine struct, New, Fetch, Run, Load *)

Addr == 0 .. (MemSize - 1)

\* The machine as one value, so that an instruction is a function of it.
Machine == [Memory |-> Memory, A |-> A, I |-> I, P |-> P, X |-> X, Y |-> Y,
            Z |-> Z, Out |-> Out, status |-> status]

\* func New() *Machine: zeroed memory and registers, Z false.
New == [Memory |-> [k \in Addr |-> 0], A |-> 0, I |-> 0, P |-> 0, X |-> 0,
        Y |-> 0, Z |-> FALSE, Out |-> << >>, status |-> "new"]

\* len(mem): the memory is indexed from 0.
MemLen(mem) == Cardinality(DOMAIN mem)

\* g.Memory[g.P] of Fetch is in range; Go panics when it is not.
CanFetch(m) == m.P \in DOMAIN m.Memory

\* The word Fetch returns, and the machine Fetch leaves (g.P++).
Fetched(m) == m.Memory[m.P]

Advance(m) == [m EXCEPT !.P = Inc(m.P)]

\* A run-time panic (index out of range): Run does not return.
Panic(m) == [m EXCEPT !.status = "panic"]

(* The cases of the switch of Run; m is the machine after op := g.Fetch(). *)


\* HALT without its return: the loop goes on as after NOOP.
ExecHALT_NoReturn(m) == m

ExecHALT(m) == [m EXCEPT !.status = "halted"]

ExecNOOP(m) == m

ExecINCA(m) == [m EXCEPT !.A = Inc(m.A)]

ExecDECA(m) == [m EXCEPT !.A = Dec(m.A)]

ExecSETA(m) ==
    IF CanFetch(m) THEN [Advance(m) EXCEPT !.A = Fetched(m)] ELSE Panic(m)

ExecSETI(m) ==
    IF CanFetch(m) THEN [Advance(m) EXCEPT !.I = Fetched(m)] ELSE Panic(m)

ExecDECI(m) == [m EXCEPT !.I = Dec(m.I)]


\* JINZ without its else branch: the operand is not skipped when I is zero.
ExecJINZ_NoElse(m) ==
    IF m.I # 0
    THEN IF CanFetch(m) THEN [m EXCEPT !.P = Fetched(m)] ELSE Panic(m)
    ELSE m

ExecJINZ(m) ==
    IF m.I # 0
    THEN IF CanFetch(m) THEN [m EXCEPT !.P = Fetched(m)] ELSE Panic(m)
    ELSE [m EXCEPT !.P = Inc(m.P)]

ExecMVAY(m) == [m EXCEPT !.Y = m.A]


\* An ADXY that moves X to Y and adds nothing.
ExecADXY_MovesX(m) == [m EXCEPT !.Y = m.X]

ExecADXY(m) == [m EXCEPT !.Y = Add(m.Y, m.X)]

\* An MVAX that moves A: it clears A behind it.
ExecMVAX_ClearsA(m) == [m EXCEPT !.X = m.A, !.A = 0]

ExecMVAX(m) == [m EXCEPT !.X = m.A]

ExecMVYA(m) == [m EXCEPT !.A = m.Y]

\* An OUTA that writes the word A as it is, whether or not it is the code
\* point of a character.
ExecOUTA_Raw(m) == [m EXCEPT !.Out = Append(m.Out, m.A)]

\* fmt.Fprintf(g.Out, "%c", g.A): the character g.A is the code point of.
ExecOUTA(m) == [m EXCEPT !.Out = Append(m.Out, FormatC(m.A))]

ExecJUMP(m) ==
    IF CanFetch(m) THEN [m EXCEPT !.P = Fetched(m)] ELSE Panic(m)

ExecINCI(m) == [m EXCEPT !.I = Inc(m.I)]

\* An LDAI that stores: it writes A to the indexed word.
ExecLDAI_Stores(m) ==
    IF ~CanFetch(m) THEN Panic(m)
    ELSE LET k == Add(m.I, Fetched(m))
         IN  IF k \in DOMAIN m.Memory THEN [Advance(m) EXCEPT !.Memory[k] = m.A]
             ELSE Panic(Advance(m))

ExecLDAI(m) ==
    IF ~CanFetch(m) THEN Panic(m)
    ELSE LET k == Add(m.I, Fetched(m))
         IN  IF k \in DOMAIN m.Memory THEN [Advance(m) EXCEPT !.A = m.Memory[k]]
             ELSE Panic(Advance(m))

ExecCMPI(m) ==
    IF CanFetch(m) THEN [Advance(m) EXCEPT !.Z = (m.I = Fetched(m))]
    ELSE Panic(m)

ExecJNEQ(m) ==
    IF ~m.Z
    THEN IF CanFetch(m) THEN [m EXCEPT !.P = Fetched(m)] ELSE Panic(m)
    ELSE m


\* A switch without its default case: an unknown word does nothing.
ExecDefault_Ignored(m) == m

\* A default case that resets the registers before it returns the error.
ExecDefault_Resets(m) ==
    [m EXCEPT !.status = "error", !.A = 0, !.I = 0, !.P = 0, !.X = 0, !.Y = 0,
              !.Z = FALSE]

\* default: return fmt.Errorf("unknown opcode %d", op)
ExecDefault(m) == [m EXCEPT !.status = "error"]

\* switch OpCode(op)
Exec(w, m) ==
    CASE w = OpHALT -> ExecHALT(m)
      [] w = OpNOOP -> ExecNOOP(m)
      [] w = OpINCA -> ExecINCA(m)
      [] w = OpDECA -> ExecDECA(m)
      [] w = OpSETA -> ExecSETA(m)
      [] w = OpSETI -> ExecSETI(m)
      [] w = OpDECI -> ExecDECI(m)
      [] w = OpJINZ -> ExecJINZ(m)
      [] w = OpMVAY -> ExecMVAY(m)
      [] w = OpADXY -> ExecADXY(m)
      [] w = OpMVAX -> ExecMVAX(m)
      [] w = OpMVYA -> ExecMVYA(m)
      [] w = OpOUTA -> ExecOUTA(m)
      [] w = OpJUMP -> ExecJUMP(m)
      [] w = OpINCI -> ExecINCI(m)
      [] w = OpLDAI -> ExecLDAI(m)
      [] w = OpCMPI -> ExecCMPI(m)
      [] w = OpJNEQ -> ExecJNEQ(m)
      [] OTHER -> ExecDefault(m)

\* The machine variables become the machine m.
Becomes(m) ==
    /\ Memory' = m.Memory
    /\ A' = m.A
    /\ I' = m.I
    /\ P' = m.P
    /\ X' = m.X
    /\ Y' = m.Y
    /\ Z' = m.Z
    /\ Out' = m.Out
    /\ status' = m.status


\* A Load that clears the memory behind the program.
Copy_ClearsRest(mem, data) ==
    [k \in DOMAIN mem |-> IF k < Len(data) THEN data[k + 1] ELSE 0]

\* copy(g.Memory, data): the front of memory is overwritten, the rest is kept.
Copy(mem, data) ==
    [k \in DOMAIN mem |-> IF k < Len(data) THEN data[k + 1] ELSE mem[k]]


\* A Load that copies before it compares the lengths.
LoadResult_CopiesFirst(m, data) ==
    IF Len(data) > MemLen(m.Memory)
    THEN [m EXCEPT !.Memory = Copy(m.Memory, data), !.status = "loadFailed"]
    ELSE [m EXCEPT !.Memory = Copy(m.Memory, data), !.P = 0, !.status = "loaded"]

\* func (g *Machine) Load(data []Word) error
LoadResult(m, data) ==
    IF Len(data) > MemLen(m.Memory)
    THEN [m EXCEPT !.status = "loadFailed"]
    ELSE [m EXCEPT !.Memory = Copy(m.Memory, data), !.P = 0, !.status = "loaded"]

\* The machine is between two calls: no Run is in progress and none has crashed.
AtRest == status \in {"new", "loaded", "loadFailed", "halted", "error"}

\* A call of g.Load(data).
Load(data) ==
    /\ AtRest
    /\ Becomes(LoadResult(Machine, data))
    /\ op' = 0
    /\ UNCHANGED <<tvars, avars, xvars, dvars>>

\* A call of g.Run(), up to the head of its loop; in debug mode with a new
\* bufio.Reader on g.In.
RunCall ==
    /\ AtRest
    /\ status' = "running"
    /\ op' = 0
    /\ inReader' = "head"
    /\ UNCHANGED <<Memory, A, I, P, X, Y, Z, Out>>
    /\ UNCHANGED <<tvars, avars, xvars, Debug, In>>

\* One turn of the loop of Run from op := g.Fetch() on, then the switch; in
\* debug mode Run is here when ReadLine has returned, with a line or without.
RunStep ==
    /\ status = "running"
    /\ Debug => inReader \in {"line", "EOF"}
    /\ inReader' = "head"
    /\ IF CanFetch(Machine)
       THEN /\ op' = Fetched(Machine)
            /\ Becomes(Exec(Fetched(Machine), Advance(Machine)))
       ELSE /\ Becomes(Panic(Machine))
            /\ UNCHANGED op
    /\ UNCHANGED <<tvars, avars, xvars, Debug, In>>

-----------------------------------------------------------------------------
(* The programs given to Load *)

\* The longest program given to Load that fits the memory.
MaxProgLen == 2

\* The words a loaded program is made of: HALT, the conditional jumps and the
\* instructions that set what they test, a word below and a word above every
\* opcode (as operands: the address 0 and an address outside the memory).
ProgWords == {0, OpHALT, OpSETI, OpJINZ, OpCMPI, OpJNEQ, OpJNEQ + 1}

\* The words of a program too long for the memory: Load looks at its length only.
LongWords == {0, OpHALT}

\* Every program of up to MaxProgLen words, and programs of one word more
\* than the memory holds.
Programs ==
    UNION {[1 .. n -> ProgWords] : n \in 0 .. MaxProgLen}
      \cup [1 .. (MemSize + 1) -> LongWords]

-----------------------------------------------------------------------------
(* Source text: a []rune, here a sequence of code points *)

\* The code points of the letters and digits the model writes.
Chr ==
    "A" :> 65 @@ "B" :> 66 @@ "C" :> 67 @@ "D" :> 68 @@ "E" :> 69
    @@ "F" :> 70 @@ "G" :> 71 @@ "H" :> 72 @@ "I" :> 73 @@ "J" :> 74
    @@ "K" :> 75 @@ "L" :> 76 @@ "M" :> 77 @@ "N" :> 78 @@ "O" :> 79
    @@ "P" :> 80 @@ "Q" :> 81 @@ "R" :> 82 @@ "S" :> 83 @@ "T" :> 84
    @@ "U" :> 85 @@ "V" :> 86 @@ "W" :> 87 @@ "X" :> 88 @@ "Y" :> 89
    @@ "Z" :> 90 @@ "a" :> 97 @@ "h" :> 104 @@ "l" :> 108 @@ "t" :> 116
    @@ "x" :> 120 @@ "0" :> 48 @@ "1" :> 49 @@ "2" :> 50 @@ "3" :> 51
    @@ "4" :> 52 @@ "5" :> 53 @@ "6" :> 54 @@ "7" :> 55 @@ "8" :> 56
    @@ "9" :> 57 @@ "[" :> 91 @@ "d" :> 100 @@ "e" :> 101 @@ "f" :> 102
    @@ "i" :> 105 @@ "m" :> 109 @@ "n" :> 110 @@ "o" :> 111 @@ "r" :> 114
    @@ "s" :> 115 @@ "u" :> 117 @@ "b" :> 98

\* const eof rune = 0
eof == 0

\* '\n', ' ', ';', '/', '\'' as the state functions compare them.
Newline == 10
Space == 32
Semicolon == 59
Slash == 47
Quote == 39

\* ':', '\t' and '\r'.
Colon == 58
Tab == 9
CarriageReturn == 13

\* '+' and '-', the signs strconv.Atoi accepts, and '0', the first digit.
Plus == 43
Minus == 45
Digit0 == 48

\* The code points of a four-letter word.
M4(a, b, c, d) == <<Chr[a], Chr[b], Chr[c], Chr[d]>>

\* var instructions = map[string]OpCode{...}
instructions ==
    M4("A","D","X","Y") :> OpADXY @@ M4("D","E","C","A") :> OpDECA
    @@ M4("D","E","C","I") :> OpDECI @@ M4("H","A","L","T") :> OpHALT
    @@ M4("I","N","C","A") :> OpINCA @@ M4("J","I","N","Z") :> OpJINZ
    @@ M4("M","V","A","X") :> OpMVAX @@ M4("M","V","A","Y") :> OpMVAY
    @@ M4("M","V","Y","A") :> OpMVYA @@ M4("N","O","O","P") :> OpNOOP
    @@ M4("O","U","T","A") :> OpOUTA @@ M4("S","E","T","A") :> OpSETA
    @@ M4("S","E","T","I") :> OpSETI @@ M4("J","U","M","P") :> OpJUMP
    @@ M4("I","N","C","I") :> OpINCI @@ M4("L","D","A","I") :> OpLDAI
    @@ M4("C","M","P","I") :> OpCMPI @@ M4("J","N","E","Q") :> OpJNEQ

\* strings.ToUpper, on the letters a to z (the other code points of the
\* model have no upper case).
ToUpperRune(c) == IF c \in 97 .. 122 THEN c - 32 ELSE c

ToUpper(str) == [k \in 1 .. Len(str) |-> ToUpperRune(str[k])]

\* strings.HasPrefix(str, "//")
HasCommentPrefix(str) == Len(str) >= 2 /\ str[1] = Slash /\ str[2] = Slash

IsDigit(c) == c \in Digit0 .. (Digit0 + 9)

\* The value of a sequence of decimal digits.
RECURSIVE DecimalValue(_)
DecimalValue(str) ==
    IF str = << >> THEN 0
    ELSE 10 * DecimalValue(SubSeq(str, 1, Len(str) - 1)) + (str[Len(str)] - Digit0)

\* strconv.Atoi: an optional sign and at least one decimal digit.
AtoiDigits(str) ==
    IF str # << >> /\ str[1] \in {Plus, Minus} THEN Tail(str) ELSE str

AtoiOk(str) ==
    /\ AtoiDigits(str) # << >>
    /\ \A k \in 1 .. Len(AtoiDigits(str)) : IsDigit(AtoiDigits(str)[k])

Atoi(str) ==
    IF str[1] = Minus THEN 0 - DecimalValue(AtoiDigits(str))
    ELSE DecimalValue(AtoiDigits(str))

\* OpCode(converted), Word(value): an int becomes an unsigned word.
ToWord(n) == n % WordMod

-----------------------------------------------------------------------------
(* Tokens: type Token struct, newToken *)

TokenInstruction == 1
TokenComment == 2
TokenNumberLiteral == 3
TokenRuneLiteral == 4

\* Token{}: the zero token newToken returns with an error.
ZeroToken == [Kind |-> 0, Value |-> 0, RawToken |-> << >>, Line |-> 0, Col |-> 0]

\* An error value: the format string of its message, the line number and the
\* text (code points) the message holds; nil is no error.
Errorf(format, lineno, arg) == [fmt |-> format, line |-> lineno, arg |-> arg]

nil == Errorf("", 0, << >>)

\* Token{Kind: kind, Value: value, RawToken: raw}
MakeToken(kind, value, raw) ==
    [ZeroToken EXCEPT !.Kind = kind, !.Value = value, !.RawToken = raw]


\* A lookup without strings.ToUpper: mnemonics in upper case only.
LookupKey_CaseSensitive(raw) == raw

\* The key newToken looks up in instructions.
LookupKey(raw) == ToUpper(raw)

\* func newToken(rawToken []rune) (Token, error)
newToken(raw) ==
    IF HasCommentPrefix(raw)
    THEN [token |-> MakeToken(TokenComment, 0, raw), err |-> nil]
    ELSE IF LookupKey(raw) \in DOMAIN instructions
    THEN [token |-> MakeToken(TokenInstruction, instructions[LookupKey(raw)], raw),
          err |-> nil]
    ELSE IF Len(raw) = 3 /\ raw[1] = Quote /\ raw[3] = Quote
    THEN [token |-> MakeToken(TokenRuneLiteral, ToWord(raw[2]), raw), err |-> nil]
    ELSE IF AtoiOk(raw)
    THEN [token |-> MakeToken(TokenNumberLiteral, ToWord(Atoi(raw)), raw), err |-> nil]
    ELSE [token |-> ZeroToken, err |-> Errorf("unknown instruction %q", 0, raw)]

-----------------------------------------------------------------------------
(* The tokenizer: type tokenizer struct and the state functions *)

\* The tokenizer as one value; state is the state function Run calls next.
Tokenizer == [input |-> input, start |-> start, pos |-> pos, line |-> line,
              result |-> result, err |-> terr, state |-> state]

\* func NewTokenizer() *tokenizer, and t.input = []rune(data) of Run.
NewTokenizer(data) ==
    [input |-> data, start |-> 0, pos |-> 0, line |-> 1, result |-> << >>,
     err |-> nil, state |-> "wantToken"]

\* func (t *tokenizer) peek() rune
peek(t) == IF t.pos >= Len(t.input) THEN eof ELSE t.input[t.pos + 1]

\* func (t *tokenizer) next() rune: the rune is peek(t), the tokenizer is:
AfterNext(t) == IF peek(t) # eof THEN [t EXCEPT !.pos = @ + 1] ELSE t

\* func (t *tokenizer) skip()
skip(t) == [t EXCEPT !.start = t.pos]

\* func (t *tokenizer) backup()
backup(t) == [t EXCEPT !.pos = @ - 1]

\* t.input[t.start:t.pos]
Lexeme(t) == SubSeq(t.input, t.start + 1, t.pos)

\* func (t *tokenizer) emit()
emit(t) ==
    LET made == newToken(Lexeme(t))
    IN  [t EXCEPT
           !.err = IF made.err # nil
                   THEN Errorf("%d: syntax error: " \o made.err.fmt, t.line, made.err.arg)
                   ELSE @,
           !.result = Append(@, [made.token EXCEPT !.Line = t.line])]

Goto(t, fn) == [t EXCEPT !.state = fn]

\* A wantToken that backs up at a space or a semicolon where it has to skip.
wantToken_BacksUp(t) ==
    LET c == peek(t)
        u == AfterNext(t)
    IN  IF c = Newline THEN skip([u EXCEPT !.line = @ + 1])
        ELSE IF c \in {Space, Semicolon} THEN backup(u)
        ELSE IF c = eof THEN Goto(u, "nil")
        ELSE Goto(backup(u), "inToken")

\* One turn of the loop of wantToken.
wantToken(t) ==
    LET c == peek(t)
        u == AfterNext(t)
    IN  IF c = Newline THEN skip([u EXCEPT !.line = @ + 1])
        ELSE IF c \in {Space, Semicolon} THEN skip(u)
        ELSE IF c = eof THEN Goto(u, "nil")
        ELSE Goto(backup(u), "inToken")


\* An inToken that takes one '/' for the start of a comment.
inToken_SlashStartsComment(t) ==
    LET c == peek(t)
        u == AfterNext(t)
    IN  IF c = Slash THEN Goto(u, "inComment")
        ELSE IF c \in {Newline, Space, Semicolon} THEN Goto(emit(backup(u)), "wantToken")
        ELSE IF c = Quote THEN Goto(u, "inRuneLiteral")
        ELSE IF c = eof THEN Goto(emit(u), "nil")
        ELSE u

\* One turn of the loop of inToken.
inToken(t) ==
    LET c == peek(t)
        u == AfterNext(t)
    IN  IF c = Slash
        THEN IF peek(u) = Slash THEN Goto(u, "inComment")
             ELSE Goto([u EXCEPT !.err = Errorf("%d: syntax error: expected '/' got '%c'",
                                                u.line, <<peek(u)>>)], "nil")
        ELSE IF c \in {Newline, Space, Semicolon} THEN Goto(emit(backup(u)), "wantToken")
        ELSE IF c = Quote THEN Goto(u, "inRuneLiteral")
        ELSE IF c = eof THEN Goto(emit(u), "nil")
        ELSE u


\* An inRuneLiteral that emits what it holds when the input ends.
inRuneLiteral_EmitsAtEOF(t) ==
    LET c == peek(t)
        u == AfterNext(t)
    IN  IF c = Quote THEN Goto(emit(u), "wantToken")
        ELSE IF c = eof THEN Goto(emit(u), "nil")
        ELSE u

\* One turn of the loop of inRuneLiteral.
inRuneLiteral(t) ==
    LET c == peek(t)
        u == AfterNext(t)
    IN  IF c = Quote THEN Goto(emit(u), "wantToken")
        ELSE IF c = eof
        THEN Goto([u EXCEPT !.err = Errorf("unexpected EOF in rune literal", 0, << >>)],
                  "nil")
        ELSE u

\* An inComment that drops the comment the input ends in.
inComment_DropsAtEOF(t) ==
    LET c == peek(t)
        u == AfterNext(t)
    IN  IF c = Newline THEN Goto(emit(backup(u)), "wantToken")
        ELSE IF c = eof THEN Goto(u, "nil")
        ELSE u

\* One turn of the loop of inComment.
inComment(t) ==
    LET c == peek(t)
        u == AfterNext(t)
    IN  IF c = Newline THEN Goto(emit(backup(u)), "wantToken")
        ELSE IF c = eof THEN Goto(emit(u), "nil")
        ELSE u

\* state(t): one turn of the loop of the state function Run is in.
StateStep(t) ==
    CASE t.state = "wantToken" -> wantToken(t)
      [] t.state = "inToken" -> inToken(t)
      [] t.state = "inRuneLiteral" -> inRuneLiteral(t)
      [] t.state = "inComment" -> inComment(t)

\* func (t *tokenizer) Run: it returns when t.err is set or state is nil.
Returns(t) == t.err # nil \/ t.state = "nil"

\* The tokens Run returns: nil with an error.
Returned(t) == IF t.err # nil THEN << >> ELSE t.result

\* Run from the tokenizer t to its return: the tokenizer it leaves.
RECURSIVE TokenizerRun(_)
TokenizerRun(t) == IF Returns(t) THEN t ELSE TokenizerRun(StateStep(t))

\* func Tokenize(data string) ([]Token, error)
Tokenize(data) ==
    LET t == TokenizerRun(NewTokenizer(data))
    IN  [tokens |-> Returned(t), err |-> t.err]

-----------------------------------------------------------------------------
(* The assembler: func Assemble *)

\* The locals of Assemble as one value.
Assembler == [argRequired |-> argRequired, program |-> program, err |-> aerr]


\* A loop in which a comment counts as the argument: it clears argRequired.
AssembleToken_CommentIsArgument(a, token) ==
    IF token.Kind = TokenComment THEN [a EXCEPT !.argRequired = FALSE]
    ELSE IF token.Kind = TokenInstruction
    THEN IF a.argRequired
         THEN [a EXCEPT !.program = << >>,
                        !.err = Errorf("line %d: unexpected instruction %q",
                                       token.Line, token.RawToken)]
         ELSE [a EXCEPT !.argRequired = RequiresArgument(token.Value),
                        !.program = Append(@, token.Value)]
    ELSE [a EXCEPT !.argRequired = FALSE, !.program = Append(@, token.Value)]


\* A loop without the continue of the comment case: the Value of a comment
\* is appended like any other.
AssembleToken_CommentIsWord(a, token) ==
    IF token.Kind = TokenComment THEN [a EXCEPT !.program = Append(@, token.Value)]
    ELSE IF token.Kind = TokenInstruction
    THEN IF a.argRequired
         THEN [a EXCEPT !.program = << >>,
                        !.err = Errorf("line %d: unexpected instruction %q",
                                       token.Line, token.RawToken)]
         ELSE [a EXCEPT !.argRequired = RequiresArgument(token.Value),
                        !.program = Append(@, token.Value)]
    ELSE [a EXCEPT !.argRequired = FALSE, !.program = Append(@, token.Value)]

\* A loop that rejects a literal no instruction asked for.
AssembleToken_LiteralNeedsInstruction(a, token) ==
    IF token.Kind = TokenComment THEN a
    ELSE IF token.Kind = TokenInstruction
    THEN IF a.argRequired
         THEN [a EXCEPT !.program = << >>,
                        !.err = Errorf("line %d: unexpected instruction %q",
                                       token.Line, token.RawToken)]
         ELSE [a EXCEPT !.argRequired = RequiresArgument(token.Value),
                        !.program = Append(@, token.Value)]
    ELSE IF a.argRequired
    THEN [a EXCEPT !.argRequired = FALSE, !.program = Append(@, token.Value)]
    ELSE [a EXCEPT !.program = << >>,
                   !.err = Errorf("line %d: unexpected literal %q", token.Line,
                                  token.RawToken)]

\* The body of the loop of Assemble for one token.
AssembleToken(a, token) ==
    IF token.Kind = TokenComment THEN a
    ELSE IF token.Kind = TokenInstruction
    THEN IF a.argRequired
         THEN [a EXCEPT !.program = << >>,
                        !.err = Errorf("line %d: unexpected instruction %q",
                                       token.Line, token.RawToken)]
         ELSE [a EXCEPT !.argRequired = RequiresArgument(token.Value),
                        !.program = Append(@, token.Value)]
    ELSE IF token.Kind \in {TokenRuneLiteral, TokenNumberLiteral}
    THEN [a EXCEPT !.argRequired = FALSE, !.program = Append(@, token.Value)]
    ELSE [a EXCEPT !.program = << >>,
                   !.err = Errorf("line %d: unknown token kine %q", token.Line,
                                  <<token.Kind>>)]

\* The locals of Assemble before its loop.
NewAssembler == [argRequired |-> FALSE, program |-> << >>, err |-> nil]

\* The loop of Assemble over the tokens toks, from the locals a to its end
\* or its first error.
RECURSIVE AssembleLoop(_, _)
AssembleLoop(a, toks) ==
    IF toks = << >> \/ a.err # nil THEN a
    ELSE AssembleLoop(AssembleToken(a, Head(toks)), Tail(toks))

TokenizerBecomes(t) ==
    /\ input' = t.input
    /\ start' = t.start
    /\ pos' = t.pos
    /\ line' = t.line
    /\ result' = t.result
    /\ terr' = t.err
    /\ state' = t.state

\* A call of Assemble with the text data, up to the call of Run:
\* Tokenize(string(data)) makes a new tokenizer.
AssembleCall(data) ==
    /\ phase = "idle"
    /\ TokenizerBecomes(NewTokenizer(data))
    /\ phase' = "tokenize"
    /\ UNCHANGED <<tokens, argRequired, program, aerr, next>>
    /\ UNCHANGED <<mvars, xvars, dvars>>

\* One turn of a state function's loop; when Run returns with it, Assemble
\* returns the error or starts its loop over the tokens.
TokenizeStep ==
    /\ phase = "tokenize"
    /\ \E t \in {StateStep(Tokenizer)} :
           /\ TokenizerBecomes(t)
           /\ IF ~Returns(t)
              THEN UNCHANGED avars
              ELSE /\ tokens' = Returned(t)
                   /\ aerr' = t.err
                   /\ phase' = IF t.err # nil THEN "failed" ELSE "assemble"
                   /\ UNCHANGED <<argRequired, program, next>>
    /\ UNCHANGED <<mvars, xvars, dvars>>

\* One turn of the loop of Assemble, or its return after the last token.
AssembleStep ==
    /\ phase = "assemble"
    /\ IF next > Len(tokens)
       THEN /\ phase' = "done"
            /\ UNCHANGED <<argRequired, program, aerr, next>>
       ELSE \E a \in {AssembleToken(Assembler, tokens[next])} :
                /\ argRequired' = a.argRequired
                /\ program' = a.program
                /\ aerr' = a.err
                /\ next' = next + 1
                /\ phase' = IF a.err # nil THEN "failed" ELSE "assemble"
    /\ UNCHANGED tokens
    /\ UNCHANGED <<tvars, mvars, xvars, dvars>>

-----------------------------------------------------------------------------
(* From a file to a run: func AssembleFromFile, func MainRun *)

\* fmt.Errorf("%s:%w", filename, err): the file name and a colon before the
\* message of err.
WrapFile(err) == [err EXCEPT !.fmt = "%s:" \o @]


\* An AssembleFromFile that drops the error of Assemble.
AssembleFromFileReturn_DropsError(prog, err) == [program |-> prog, err |-> nil]

\* What AssembleFromFile returns when Assemble has returned prog and err.
AssembleFromFileReturn(prog, err) ==
    IF err # nil THEN [program |-> << >>, err |-> WrapFile(err)]
    ELSE [program |-> prog, err |-> nil]

\* MainRun up to the call of Assemble in AssembleFromFile: g := New(), the
\* file opens and holds the text data.
MainRunCall(data) ==
    /\ exit = "none"
    /\ status = "new"
    /\ AssembleCall(data)

\* MainRun with a file that does not open: os.Open fails, AssembleFromFile
\* returns its error as it is and MainRun returns 1.
MainRunOpenFails ==
    /\ phase = "idle"
    /\ exit = "none"
    /\ status = "new"
    /\ ferr' = Errorf("open %s: %v", 0, << >>)
    /\ exit' = "1"
    /\ UNCHANGED <<mvars, tvars, avars, dvars>>

\* Assemble has returned: AssembleFromFile returns; with an error MainRun
\* returns 1, without one it calls g.Load(program), returns 1 if Load fails
\* and calls g.Run() if it does not.
MainRunAssembled ==
    /\ phase \in {"done", "failed"}
    /\ exit = "none"
    /\ status = "new"
    /\ LET r == AssembleFromFileReturn(program, aerr)
           m == LoadResult(Machine, r.program)
       IN  /\ ferr' = r.err
           /\ IF r.err # nil
              THEN /\ exit' = "1"
                   /\ UNCHANGED mvars
              ELSE IF m.status = "loadFailed"
              THEN /\ exit' = "1"
                   /\ Becomes(m)
                   /\ UNCHANGED op
              ELSE /\ exit' = "none"
                   /\ Becomes([m EXCEPT !.status = "running"])
                   /\ op' = 0
    /\ UNCHANGED <<tvars, avars, dvars>>

\* g.Run() has returned: MainRun returns 0 after HALT and 1 with an error.
MainRunReturn ==
    /\ status \in {"halted", "error"}
    /\ exit = "none"
    /\ exit' = IF status = "halted" THEN "0" ELSE "1"
    /\ UNCHANGED ferr
    /\ UNCHANGED <<mvars, tvars, avars, dvars>>

-----------------------------------------------------------------------------
(* Debug mode: Machine.String, DecodeNextInstruction, Peek and the stepping *)
(* of Run                                                                   *)

\* func InvertMap: the map from every value of m to a key that holds it.
InvertMap(m) ==
    [v \in {m[k] : k \in DOMAIN m} |-> CHOOSE k \in DOMAIN m : m[k] = v]

\* var opCodes = InvertMap(instructions)
opCodes == InvertMap(instructions)

\* func (o OpCode) String() string: opCodes[o], the empty string for a word
\* the map has no key for.
OpCodeString(o) == IF o \in DOMAIN opCodes THEN opCodes[o] ELSE << >>

\* The verb %v of fmt on a Word: its decimal digits.
RECURSIVE FormatV(_)
FormatV(w) ==
    IF w < 10 THEN <<Digit0 + w>>
    ELSE Append(FormatV(w \div 10), Digit0 + (w % 10))

\* The verb %06v on a Word: its decimal digits behind zeros up to six places.
Format06V(w) ==
    LET d == FormatV(w)
    IN  IF Len(d) >= 6 THEN d ELSE [k \in 1 .. (6 - Len(d)) |-> Digit0] \o d

\* The verb %v on a bool.
FormatBool(b) ==
    IF b THEN <<Chr["t"], Chr["r"], Chr["u"], Chr["e"]>>
    ELSE <<Chr["f"], Chr["a"], Chr["l"], Chr["s"], Chr["e"]>>

\* func (g *Machine) Peek() Word: the word g.Memory[g.P+1] and the machine
\* the call leaves; Go panics when the index is out of range.
Peek(m) ==
    IF Inc(m.P) \in DOMAIN m.Memory
    THEN [m |-> m, op |-> m.Memory[Inc(m.P)]]
    ELSE [m |-> Panic(m), op |-> 0]

\* func (g *Machine) DecodeNextInstruction() string: the string and the
\* machine the call leaves.
DecodeNextInstruction(m) ==
    IF ~CanFetch(m) THEN [m |-> Panic(m), result |-> << >>]
    ELSE LET opCode == m.Memory[m.P]
         IN  IF RequiresArgument(opCode)
             THEN LET p == Peek(m)
                  IN  [m |-> p.m,
                       result |-> OpCodeString(opCode) \o <<Space>> \o FormatV(p.op)]
             ELSE [m |-> m, result |-> OpCodeString(opCode)]

\* "P: ", "A: " and so on in the format of String.
Label(c) == <<Chr[c], Colon, Space>>

\* func (g *Machine) String() string:
\* `P: %06v A: %06v I: %06v X: %06v Y: %06v Z: %v NEXT: %v`
String(m) ==
    LET d == DecodeNextInstruction(m)
    IN  [m |-> d.m,
         result |->
             Label("P") \o Format06V(m.P) \o <<Space>>
             \o Label("A") \o Format06V(m.A) \o <<Space>>
             \o Label("I") \o Format06V(m.I) \o <<Space>>
             \o Label("X") \o Format06V(m.X) \o <<Space>>
             \o Label("Y") \o Format06V(m.Y) \o <<Space>>
             \o Label("Z") \o FormatBool(m.Z) \o <<Space>>
             \o M4("N","E","X","T") \o <<Colon, Space>> \o d.result]

\* The head of a turn of the loop of Run in debug mode:
\* fmt.Fprint(g.Out, g.String()).
RunShow ==
    /\ status = "running"
    /\ Debug
    /\ inReader = "head"
    /\ LET s == String(Machine)
       IN  IF s.m.status = "panic"
           THEN /\ Becomes(s.m)
                /\ UNCHANGED inReader
           ELSE /\ Becomes([s.m EXCEPT !.Out = @ \o s.result])
                /\ inReader' = "reading"
    /\ UNCHANGED <<op, tvars, avars, xvars, Debug, In>>

\* inReader.ReadLine() in debug mode: it returns when a line can be read, and
\* at the end of the input without one; Run drops what it returns.
RunReadLine ==
    /\ status = "running"
    /\ inReader = "reading"
    /\ \/ /\ In.lines > 0
          /\ In' = [In EXCEPT !.lines = @ - 1]
          /\ inReader' = "line"
       \/ /\ In.lines = 0
          /\ In.closed
          /\ UNCHANGED In
          /\ inReader' = "EOF"
    /\ UNCHANGED <<mvars, tvars, avars, xvars, Debug>>

\* The most lines that wait in the input stream.
MaxLines == 2

\* The owner of the input stream writes a line to it.
InWrite ==
    /\ ~In.closed
    /\ In.lines < MaxLines
    /\ In' = [In EXCEPT !.lines = @ + 1]
    /\ UNCHANGED <<mvars, tvars, avars, xvars, Debug, inReader>>

\* The owner of the input stream closes it.
InClose ==
    /\ ~In.closed
    /\ In' = [In EXCEPT !.closed = TRUE]
    /\ UNCHANGED <<mvars, tvars, avars, xvars, Debug, inReader>>

-----------------------------------------------------------------------------
(* The source texts given to Assemble *)

\* The most pieces a source text is made of.
MaxPieces == 4

\* The pieces: two mnemonics without an operand, in either case, one with an
\* operand, a digit, the three separators, and the characters that start a
\* comment, a rune literal and an unknown word.
Pieces ==
    {M4("N","O","O","P"), M4("h","a","l","t"), M4("S","E","T","A"),
     <<Chr["5"]>>, <<Space>>, <<Semicolon>>, <<Newline>>, <<Slash>>, <<Quote>>,
     <<Chr["x"]>>}

RECURSIVE Texts(_)
Texts(n) ==
    IF n = 0 THEN {<< >>}
    ELSE LET shorter == Texts(n - 1)
         IN  shorter \cup {s \o piece : s \in shorter, piece \in Pieces}

\* "NOOP\nSETA 5 \n HALT\n" of TestTokenize.
SampleLines ==
    M4("N","O","O","P") \o <<Newline>> \o M4("S","E","T","A") \o <<Space, Chr["5"],
    Space, Newline, Space>> \o M4("H","A","L","T") \o <<Newline>>

\* "NOOP; halt" of TestAssembly.
SampleCase == M4("N","O","O","P") \o <<Semicolon, Space>> \o M4("h","a","l","t")

\* A rune literal holding a newline, then an instruction on the second line.
SampleRuneNewline ==
    <<Quote, Newline, Quote, Space>> \o M4("N","O","O","P")

\* "SETA //x\nhalt": a comment between SETA and the instruction after it.
SampleCommentGap ==
    M4("S","E","T","A") \o <<Space, Slash, Slash, Chr["x"], Newline>> \o M4("h","a","l","t")

\* "[" of TestTokenizeError: a word that is no mnemonic and no number.
SampleUnknown == <<Chr["["]>>

\* A rune literal holding a newline, then an unknown word on the second line.
SampleRuneNewlineUnknown == <<Quote, Newline, Quote, Space, Chr["["]>>

\* "DECI LDAI": instructions only; I wraps below zero and LDAI indexes with it.
SampleIndexed == M4("D","E","C","I") \o <<Space>> \o M4("L","D","A","I")

\* "JUMP": instructions only; the operand is the zero word behind the program.
SampleLoop == M4("J","U","M","P")

\* The code point of the Cyrillic letter el of TestTokenize_RecognizeRuneLiterals.
CyrillicEl == 1083

\* "'H'" and the rune literal of the Cyrillic letter, of the same test.
SampleRuneH == <<Quote, Chr["H"], Quote>>

SampleRuneCyrillic == <<Quote, CyrillicEl, Quote>>

\* A rune literal of the code point 0.
SampleRuneZero == <<Quote, 0, Quote>>

\* "SETA //x\n5": a comment between SETA and its argument.
SampleCommentBeforeArgument ==
    M4("S","E","T","A") \o <<Space, Slash, Slash, Chr["x"], Newline, Chr["5"]>>

\* "-1" and "+1": a number with a sign.
SampleMinusOne == <<Minus, Chr["1"]>>

SamplePlusOne == <<Plus, Chr["1"]>>

\* "NOOP\thalt" and "NOOP\r\nhalt": "NOOP; halt" of TestAssembly with a tab
\* and with a CRLF line end between the two instructions.
SampleTab == M4("N","O","O","P") \o <<Tab>> \o M4("h","a","l","t")

SampleCRLF ==
    M4("N","O","O","P") \o <<CarriageReturn, Newline>> \o M4("h","a","l","t")

\* "JUMP main;main:" of TestLabels.
SampleLabels ==
    M4("J","U","M","P") \o <<Space>> \o M4("m","a","i","n") \o <<Semicolon>>
    \o M4("m","a","i","n") \o <<Colon>>

\* "'a''b'": two rune literals written back to back.
SampleTwoRunes == <<Quote, Chr["a"], Quote, Quote, Chr["b"], Quote>>

\* "NOOP\x00halt": a NUL character between two instructions.
SampleNul == M4("N","O","O","P") \o <<0>> \o M4("h","a","l","t")

Samples ==
    {SampleLines, SampleCase, SampleRuneNewline, SampleCommentGap, SampleUnknown,
     SampleRuneNewlineUnknown, SampleIndexed, SampleLoop, SampleRuneH,
     SampleRuneCyrillic, SampleRuneZero, SampleCommentBeforeArgument,
     SampleMinusOne, SamplePlusOne, SampleTab, SampleCRLF, SampleLabels,
     SampleTwoRunes, SampleNul}

Inputs == Texts(MaxPieces) \cup Samples

-----------------------------------------------------------------------------
(* The machine on its own: Load and Run calls in any order *)

Init ==
    /\ Memory = New.Memory
    /\ A = New.A
    /\ I = New.I
    /\ P = New.P
    /\ X = New.X
    /\ Y = New.Y
    /\ Z = New.Z
    /\ Out = New.Out
    /\ status = New.status
    /\ op = 0
    /\ input = << >>
    /\ start = 0
    /\ pos = 0
    /\ line = 0
    /\ result = << >>
    /\ terr = nil
    /\ state = "nil"
    /\ tokens = << >>
    /\ argRequired = FALSE
    /\ program = << >>
    /\ aerr = nil
    /\ next = 1
    /\ phase = "idle"
    /\ ferr = nil
    /\ exit = "none"
    /\ Debug = FALSE
    /\ In = NoInput
    /\ inReader = "head"

Next ==
    \/ AtRest /\ \E data \in Programs : Load(data)
    \/ RunCall
    \/ RunStep

Spec == Init /\ [][Next]_vars

\* The assembler on its own: one call of Assemble on a source text.
NextAsm ==
    \/ phase = "idle" /\ \E data \in Inputs : AssembleCall(data)
    \/ TokenizeStep
    \/ AssembleStep

SpecAsm == Init /\ [][NextAsm]_vars

\* The loop program of TestFib with n turns, closed by HALT.
FibProgram(n) ==
    <<OpINCA, OpSETI, n, OpMVAY, OpADXY, OpMVAX, OpMVYA, OpDECI, OpJINZ, 3, OpHALT>>

\* The words of the memory the loop program runs in: the program and a
\* zero word behind it.
FibMemSize == 12

\* The most turns the loop program is loaded with.
MaxLoops == 10

\* A new machine with FibMemSize words of memory.
NewFib == [New EXCEPT !.Memory = [k \in 0 .. (FibMemSize - 1) |-> 0]]

InitFib ==
    /\ Memory = NewFib.Memory
    /\ A = NewFib.A
    /\ I = NewFib.I
    /\ P = NewFib.P
    /\ X = NewFib.X
    /\ Y = NewFib.Y
    /\ Z = NewFib.Z
    /\ Out = NewFib.Out
    /\ status = NewFib.status
    /\ op = 0
    /\ input = << >>
    /\ start = 0
    /\ pos = 0
    /\ line = 0
    /\ result = << >>
    /\ terr = nil
    /\ state = "nil"
    /\ tokens = << >>
    /\ argRequired = FALSE
    /\ program = << >>
    /\ aerr = nil
    /\ next = 1
    /\ phase = "idle"
    /\ ferr = nil
    /\ exit = "none"
    /\ Debug = FALSE
    /\ In = NoInput
    /\ inReader = "head"

\* One Load of the loop program into the new machine, then one Run.
NextFib ==
    \/ status = "new" /\ \E n \in 1 .. MaxLoops : Load(FibProgram(n))
    \/ status = "loaded" /\ RunCall
    \/ RunStep

\* Run is one thread that runs to its return: a turn of its loop that can
\* be taken is taken.
SpecFib ==
    /\ InitFib
    /\ [][NextFib]_vars
    /\ WF_vars(status = "loaded" /\ RunCall)
    /\ WF_vars(RunStep)

\* The machine variables hold the machine m.
MachineIs(m) ==
    /\ Memory = m.Memory
    /\ A = m.A
    /\ I = m.I
    /\ P = m.P
    /\ X = m.X
    /\ Y = m.Y
    /\ Z = m.Z
    /\ Out = m.Out
    /\ status = m.status
    /\ op = 0

\* No call of Assemble and none of MainRun has been made.
NotCalled ==
    /\ input = << >>
    /\ start = 0
    /\ pos = 0
    /\ line = 0
    /\ result = << >>
    /\ terr = nil
    /\ state = "nil"
    /\ tokens = << >>
    /\ argRequired = FALSE
    /\ program = << >>
    /\ aerr = nil
    /\ next = 1
    /\ phase = "idle"
    /\ ferr = nil
    /\ exit = "none"

\* A new machine with n words of memory.
NewSized(n) == [New EXCEPT !.Memory = [k \in 0 .. (n - 1) |-> 0]]

\* "Hello World"
HelloWorld ==
    <<Chr["H"], Chr["e"], Chr["l"], Chr["l"], Chr["o"], Space,
      Chr["W"], Chr["o"], Chr["r"], Chr["l"], Chr["d"]>>

\* The program that writes the text: SETA c and OUTA for each of its
\* characters c, then HALT.
OutProgram(text) ==
    [k \in 1 .. (3 * Len(text) + 1) |->
        IF k = 3 * Len(text) + 1 THEN OpHALT
        ELSE IF k % 3 = 1 THEN OpSETA
        ELSE IF k % 3 = 2 THEN text[(k + 1) \div 3]
        ELSE OpOUTA]

\* The texts written: the beginnings of "Hello World" and single words at the
\* ends of the ranges of the code points that are characters.
OutTexts ==
    {SubSeq(HelloWorld, 1, n) : n \in 0 .. Len(HelloWorld)}
      \cup {<<c>> : c \in {0, SurrogateMin - 1, SurrogateMin, SurrogateMax,
                           SurrogateMax + 1, RuneError, MaxWord}}

\* A new machine with memory for the longest of the programs and a word more.
NewOut == NewSized(Len(OutProgram(HelloWorld)) + 1)

InitOut ==
    /\ MachineIs(NewOut)
    /\ NotCalled
    /\ Debug = FALSE
    /\ In = NoInput
    /\ inReader = "head"

\* One Load of a program that writes a text, then one Run, not in debug mode.
NextOut ==
    \/ status = "new" /\ \E text \in OutTexts : Load(OutProgram(text))
    \/ status = "loaded" /\ RunCall
    \/ RunStep

SpecOut == InitOut /\ [][NextOut]_vars

\* A program that fills the memory and ends in an instruction with an operand.
LastWordProgram == [k \in 1 .. MemSize |-> IF k = MemSize THEN OpJUMP ELSE OpNOOP]

\* The programs stepped through in debug mode: those of TestDebugFlag, of
\* TestStateStringOutput and of TestDebugger_DecodeInstruction, programs that
\* run to the end of the memory, and the empty program.
DebugPrograms ==
    {<<OpINCA, OpHALT>>, <<OpINCA, OpHALT, OpINCA>>, <<OpJUMP, 5>>,
     <<OpSETA, 1, OpHALT>>, <<OpCMPI, 0, OpHALT>>, <<OpJUMP, 2, OpHALT>>,
     LastWordProgram, << >>}

InitDebug ==
    /\ MachineIs(New)
    /\ NotCalled
    /\ Debug = TRUE
    /\ In = NoInput
    /\ inReader = "head"

\* One Load and one Run in debug mode, while the owner of the input stream
\* writes lines to it and closes it.
NextDebug ==
    \/ status = "new" /\ \E data \in DebugPrograms : Load(data)
    \/ status = "loaded" /\ RunCall
    \/ RunShow
    \/ RunReadLine
    \/ RunStep
    \/ InWrite
    \/ InClose

SpecDebug == InitDebug /\ [][NextDebug]_vars

\* The most instructions of a program of register arithmetic.
MaxArithLen == 4

\* The instructions that count and add, and those that move A to X and Y.
ArithWords == {OpINCA, OpDECA, OpINCI, OpDECI, OpADXY, OpMVAX, OpMVAY}

\* Every program of up to MaxArithLen of these instructions closed by HALT.
ArithPrograms ==
    {Append(body, OpHALT) :
        body \in UNION {[1 .. n -> ArithWords] : n \in 0 .. MaxArithLen}}

InitArith ==
    /\ MachineIs(NewSized(MaxArithLen + 2))
    /\ NotCalled
    /\ Debug = FALSE
    /\ In = NoInput
    /\ inReader = "head"

\* One Load of a program of register arithmetic, then one Run.
NextArith ==
    \/ status = "new" /\ \E data \in ArithPrograms : Load(data)
    \/ status = "loaded" /\ RunCall
    \/ RunStep

SpecArith == InitArith /\ [][NextArith]_vars

\* The most instructions of a program made of every kind of instruction.
MaxFrameLen == 2

\* The opcodes whose case fetches a jump target, those whose case fetches
\* another operand, and those whose case fetches nothing (HALT closes the
\* program).
JumpWords == {OpJUMP, OpJINZ, OpJNEQ}

OperandWords == {OpSETA, OpSETI, OpLDAI, OpCMPI}

PlainWords == OpCodes \ ({OpHALT} \cup JumpWords \cup OperandWords)

\* The instructions of a program: an opcode, with the operand v where the
\* opcode has one that is no jump target.
FrameUnits ==
    [op : PlainWords \cup JumpWords, v : {0}] \cup [op : OperandWords, v : {0, 1}]

\* The number of words of the instructions us.
RECURSIVE BodyLen(_)
BodyLen(us) ==
    IF us = << >> THEN 0
    ELSE (IF Head(us).op \in PlainWords THEN 1 ELSE 2) + BodyLen(Tail(us))

\* The words of the instructions us; every jump is to the address target.
RECURSIVE Body(_, _)
Body(us, target) ==
    IF us = << >> THEN << >>
    ELSE LET u == Head(us)
             words == IF u.op \in PlainWords THEN <<u.op>>
                      ELSE IF u.op \in JumpWords THEN <<u.op, target>>
                      ELSE <<u.op, u.v>>
         IN  words \o Body(Tail(us), target)

\* The program of the instructions us: its jumps go to the HALT that closes it.
FrameProgram(us) == Body(us, BodyLen(us)) \o <<OpHALT>>

FramePrograms ==
    {FrameProgram(us) : us \in UNION {[1 .. n -> FrameUnits] : n \in 0 .. MaxFrameLen}}

InitFrame ==
    /\ MachineIs(NewSized(2 * MaxFrameLen + 2))
    /\ NotCalled
    /\ Debug = FALSE
    /\ In = NoInput
    /\ inReader = "head"

\* One Load of a program of up to MaxFrameLen instructions, then one Run.
NextFrame ==
    \/ status = "new" /\ \E data \in FramePrograms : Load(data)
    \/ status = "loaded" /\ RunCall
    \/ RunStep

SpecFrame == InitFrame /\ [][NextFrame]_vars

\* The most characters of a text given to the tokenizer on its own.
MaxLexLen == 4

\* The characters of these texts: a digit, the separators, the characters
\* that start a comment and a rune literal, and NUL.
LexChars == {Chr["5"], Space, Semicolon, Newline, Slash, Quote, 0}

LexInputs == UNION {[1 .. n -> LexChars] : n \in 0 .. MaxLexLen}

\* One call of Assemble on a text of up to MaxLexLen characters.
NextLex ==
    \/ phase = "idle" /\ \E data \in LexInputs : AssembleCall(data)
    \/ TokenizeStep
    \/ AssembleStep

\* Run of the tokenizer is a loop on one thread: a turn that can be taken is
\* taken.
SpecLex == Init /\ [][NextLex]_vars /\ WF_vars(TokenizeStep)

\* The command: one call of MainRun on a file holding a source text.
NextMain ==
    \/ phase = "idle" /\ \E data \in Inputs : MainRunCall(data)
    \/ MainRunOpenFails
    \/ TokenizeStep
    \/ AssembleStep
    \/ MainRunAssembled
    \/ RunStep
    \/ MainRunReturn

SpecMain == Init /\ [][NextMain]_vars

-----------------------------------------------------------------------------
(* Properties of the machine *)

\* Run is at the head of its loop and the word it fetches next, at P, is w.
Fetching(w) == status = "running" /\ P \in DOMAIN Memory /\ Memory[P] = w

\* C1: when Run fetches a HALT word it returns nil at once, P is then the
\* index of that word plus one, and nothing but P is changed.
C1_HaltReturns ==
    [][Fetching(OpHALT) =>
          /\ status' = "halted"
          /\ P' = P + 1
          /\ UNCHANGED <<Memory, A, I, X, Y, Z, Out>>]_vars

\* Run has returned nil after HALT, on a machine whose I and Z an earlier run set.
C1_Witness ==
    /\ status = "halted" /\ op = OpHALT
    /\ P > 0 /\ Memory[P - 1] = OpHALT
    /\ I # 0 /\ Z

\* C2: a fetched instruction word that is none of the 18 opcodes (0, or above
\* JNEQ = 18) makes Run return the error "unknown opcode <word>" at once: the
\* word is not executed as HALT or NOOP, and nothing but P is changed.
C2_UnknownOpcodeIsError ==
    [][(status = "running" /\ P < MemSize /\ Memory[P] \notin 1 .. 18) =>
          /\ status' = "error"
          /\ op' = Memory[P]
          /\ P' = P + 1
          /\ UNCHANGED <<Memory, A, I, X, Y, Z, Out>>]_vars

\* Run has returned "unknown opcode 0" from the zeroed rest of the memory.
C2_Witness ==
    /\ status = "error" /\ op = 0
    /\ P = MaxProgLen + 1 /\ Memory[MaxProgLen] = 0

\* C3: Run never crashes: when P leaves the memory, Run ends with an error.
C3_RunNeverCrashes == status # "panic"

\* C4: JNEQ at address p, with its operand in memory: P becomes Memory[p+1]
\* if Z is false and p+2 if Z is true.
C4_JNEQ ==
    [][(Fetching(OpJNEQ) /\ P + 1 < MemSize) =>
          P' = IF Z THEN P + 2 ELSE Memory[P + 1]]_vars

\* C5: JINZ at address p: P becomes Memory[p+1] if I is not zero (and that
\* operand word is in memory), and p+2 if I is zero; no other register changes.
C5_JINZ ==
    [][Fetching(OpJINZ) =>
          /\ (I # 0 /\ P + 1 < MemSize) => (P' = Memory[P + 1] /\ status' = "running")
          /\ I = 0 => (P' = P + 2 /\ status' = "running")
          /\ UNCHANGED <<Memory, A, I, X, Y, Z, Out>>]_vars

\* JINZ at address 0 has skipped its operand: I is zero and P is 2.
C5_Witness ==
    /\ status = "running" /\ op = OpJINZ
    /\ Memory[0] = OpJINZ
    /\ I = 0 /\ P = 2

\* C6: whenever the machine is at rest, Load of a program longer than the
\* memory returns an error and changes no memory word and no register.
C6_LoadTooLong ==
    AtRest =>
        \A data \in Programs :
            Len(data) > MemSize =>
                LET m == LoadResult(Machine, data)
                IN  /\ m.status = "loadFailed"
                    /\ m.Memory = Memory
                    /\ <<m.A, m.I, m.P, m.X, m.Y, m.Z, m.Out>> = <<A, I, P, X, Y, Z, Out>>

\* A Load has failed on a machine with a program in memory, after a run.
C6_Witness ==
    /\ status = "loadFailed"
    /\ Memory[0] # 0 /\ I # 0 /\ P # 0

\* C7: whenever the machine is at rest, Load of a program that fits sets the
\* front of the memory to the program and P to 0, and keeps every later
\* memory word and A, I, X, Y, Z as they were.
C7_LoadKeepsTheRest ==
    AtRest =>
        \A data \in Programs :
            Len(data) <= MemSize =>
                LET m == LoadResult(Machine, data)
                IN  /\ m.status = "loaded"
                    /\ m.P = 0
                    /\ \A k \in Addr :
                          m.Memory[k] = IF k < Len(data) THEN data[k + 1] ELSE Memory[k]
                    /\ <<m.A, m.I, m.X, m.Y, m.Z, m.Out>> = <<A, I, X, Y, Z, Out>>

\* A one-word program was loaded over a longer one, after a run that set I
\* and Z: the second word of the old program, I and Z are still there.
C7_Witness ==
    /\ status = "loaded" /\ P = 0
    /\ Memory[0] = OpJNEQ /\ Memory[1] = OpHALT
    /\ I # 0 /\ Z

-----------------------------------------------------------------------------
(* Properties of the assembler and the tokenizer *)

\* The tokens before place k of the token list that are no comments.
CodeBefore(k) == {j \in 1 .. (k - 1) : tokens[j].Kind # TokenComment}

\* At place k the assembler expects an argument: the last token before it
\* that is no comment is SETA, SETI, JUMP or JNEQ.
ArgumentPending(k) ==
    /\ CodeBefore(k) # {}
    /\ LET j == CHOOSE j \in CodeBefore(k) : \A i \in CodeBefore(k) : i <= j
       IN  /\ tokens[j].Kind = TokenInstruction
           /\ tokens[j].Value \in {OpSETA, OpSETI, OpJUMP, OpJNEQ}

\* C8: when the loop of Assemble comes to an Instruction token while an
\* argument is pending, Assemble fails with "unexpected instruction", the
\* line and the raw text of that token, and returns no program.
C8_UnexpectedInstruction ==
    [][(/\ phase = "assemble" /\ next <= Len(tokens)
        /\ tokens[next].Kind = TokenInstruction
        /\ ArgumentPending(next)) =>
          /\ phase' = "failed"
          /\ aerr' = Errorf("line %d: unexpected instruction %q",
                            tokens[next].Line, tokens[next].RawToken)
          /\ program' = << >>]_vars

\* "SETA //x\nhalt" has failed at halt, on line 2, behind the comment.
C8_Witness ==
    /\ phase = "failed" /\ input = SampleCommentGap
    /\ aerr = Errorf("line %d: unexpected instruction %q", 2, M4("h","a","l","t"))
    /\ program = << >>

\* The Value fields of the tokens that are no comments, in order.
RECURSIVE CodeValues(_)
CodeValues(toks) ==
    IF toks = << >> THEN << >>
    ELSE IF Head(toks).Kind = TokenComment THEN CodeValues(Tail(toks))
    ELSE <<Head(toks).Value>> \o CodeValues(Tail(toks))

\* The text is the mnemonic but for the case of its letters.
SameButCase(raw, mnemonic) ==
    /\ Len(raw) = Len(mnemonic)
    /\ \A k \in 1 .. Len(raw) : raw[k] = mnemonic[k] \/ raw[k] = mnemonic[k] + 32

\* C9: a successful Assemble returns the Values of the tokens that are no
\* comments, in order, and nothing else; a mnemonic written in any case is
\* its opcode; and "NOOP; halt" assembles, to [NOOP, HALT].
C9_ProgramIsTheValues ==
    /\ phase = "done" =>
          /\ aerr = nil
          /\ program = CodeValues(tokens)
    /\ phase \in {"assemble", "done"} =>
          \A k \in 1 .. Len(tokens) :
              \A mnemonic \in DOMAIN instructions :
                  SameButCase(tokens[k].RawToken, mnemonic) =>
                      /\ tokens[k].Kind = TokenInstruction
                      /\ tokens[k].Value = instructions[mnemonic]
    /\ (input = SampleCase /\ phase \in {"done", "failed"}) =>
          /\ phase = "done"
          /\ program = <<OpNOOP, OpHALT>>

\* "NOOP; halt" is assembled.
C9_Witness ==
    /\ phase = "done" /\ input = SampleCase
    /\ program = <<OpNOOP, OpHALT>>

\* The number of newlines among the first n characters of the text.
NewlinesIn(text, n) == Cardinality({k \in 1 .. n : text[k] = Newline})

\* C10: in a text that tokenizes successfully, the Line of every emitted
\* token is 1 plus the number of newlines before the first character of its
\* lexeme.
C10_TokenLines ==
    [][(Len(result') > Len(result) /\ Tokenize(input).err = nil) =>
          result'[Len(result')].Line = 1 + NewlinesIn(input, start)]_vars

\* The text is a mnemonic of the instruction table, in any case of letters.
IsMnemonic(raw) == \E mnemonic \in DOMAIN instructions : SameButCase(raw, mnemonic)

\* The text is a quote, one code point and a quote.
IsQuotedRune(raw) == Len(raw) = 3 /\ raw[1] = Quote /\ raw[3] = Quote

\* The text is a base-10 integer: decimal digits, after a sign or without one.
IsInteger(raw) ==
    \E digits \in {raw} \cup (IF raw # << >> /\ raw[1] \in {Plus, Minus}
                             THEN {Tail(raw)} ELSE {}) :
        /\ digits # << >>
        /\ \A k \in 1 .. Len(digits) : digits[k] \in Digit0 .. (Digit0 + 9)

\* The text starts with "//".
IsComment(raw) == Len(raw) >= 2 /\ SubSeq(raw, 1, 2) = <<Slash, Slash>>

\* The turn of the tokenizer that is taken emits a lexeme: the text from
\* start to the new pos.
Emitting == phase = "tokenize" /\ Len(result') > Len(result)

Emitted == SubSeq(input, start + 1, pos')

\* C11: a lexeme that is no comment, no mnemonic (in any case), no quoted
\* rune and no base-10 integer makes Tokenize fail, with no tokens and the
\* syntax error "unknown instruction <text>" tagged with the line the lexeme
\* stands on: 1 plus the number of newlines before it.
C11_UnknownWord ==
    [][(/\ Emitting
        /\ ~IsComment(Emitted) /\ ~IsMnemonic(Emitted)
        /\ ~IsQuotedRune(Emitted) /\ ~IsInteger(Emitted)) =>
          /\ phase' = "failed"
          /\ tokens' = << >>
          /\ aerr' = Errorf("%d: syntax error: unknown instruction %q",
                            1 + NewlinesIn(input, start), Emitted)]_vars

\* Tokenize has returned to Assemble.
Tokenized == phase \in {"assemble", "done", "failed"}

\* C16: a text that is a quote, one code point c and a quote tokenizes to
\* one RuneLiteral token with the text as RawToken and the code point of c
\* as Value, whatever c is: a letter, a code point above 127, a separator,
\* '/' or any other.
C16_RuneLiteral ==
    (Tokenized /\ IsQuotedRune(input)) =>
        /\ aerr = nil
        /\ tokens = <<[Kind |-> TokenRuneLiteral, Value |-> input[2],
                       RawToken |-> input, Line |-> 1, Col |-> 0]>>

\* The tokenizer is in inRuneLiteral and the input has ended: a quote was
\* opened and not closed.
RuneLiteralOpenAtEnd ==
    phase = "tokenize" /\ state = "inRuneLiteral" /\ pos >= Len(input)

\* C17 as stated: when the input ends in inRuneLiteral, Tokenize fails with
\* the error "unexpected end of input in rune literal" and returns no tokens.
C17_AsStated ==
    [][RuneLiteralOpenAtEnd =>
          /\ phase' = "failed"
          /\ aerr'.fmt \in {"unexpected end of input in rune literal",
                            "%d: syntax error: unexpected end of input in rune literal"}
          /\ tokens' = << >>]_vars

\* C17, with the message of the program: when the input ends in
\* inRuneLiteral, Tokenize fails with the error "unexpected EOF in rune
\* literal", which names no line, and returns no tokens; the unfinished
\* lexeme is not emitted.
C17_RuneLiteralOpenAtEnd ==
    [][RuneLiteralOpenAtEnd =>
          /\ phase' = "failed"
          /\ aerr' = Errorf("unexpected EOF in rune literal", 0, << >>)
          /\ tokens' = << >>
          /\ result' = result]_vars

\* Tokenize has failed at the end of a text whose rune literal is open,
\* after it had emitted a token.
C17_Witness ==
    /\ phase = "failed" /\ state = "nil" /\ pos = Len(input)
    /\ aerr = Errorf("unexpected EOF in rune literal", 0, << >>)
    /\ Len(result) = 1 /\ result[1].Kind = TokenInstruction
    /\ tokens = << >>

\* The tokenizer is in inToken and the next character is '/'.
SlashInToken ==
    phase = "tokenize" /\ state = "inToken" /\ pos < Len(input) /\ input[pos + 1] = Slash

\* What stands behind that '/': a character, or eof at the end of the input.
BehindSlash == IF pos + 1 < Len(input) THEN input[pos + 2] ELSE eof

\* C18: in inToken, a '/' followed by '/' moves the tokenizer to inComment
\* with no error and no token; a '/' followed by another character or by the
\* end of the input makes Tokenize fail, with no tokens and the syntax error
\* "expected '/' got <what follows>" tagged with the line of the tokenizer.
C18_SlashInToken ==
    [][SlashInToken =>
          IF BehindSlash = Slash
          THEN /\ state' = "inComment"
               /\ phase' = "tokenize"
               /\ terr' = nil
               /\ result' = result
          ELSE /\ phase' = "failed"
               /\ tokens' = << >>
               /\ aerr' = Errorf("%d: syntax error: expected '/' got '%c'", line,
                                 <<BehindSlash>>)]_vars

\* Tokenize has failed at a '/' on line 2 that the end of the input follows.
C18_Witness ==
    /\ phase = "failed" /\ pos = Len(input)
    /\ aerr = Errorf("%d: syntax error: expected '/' got '%c'", 2, <<eof>>)
    /\ tokens = << >>

\* The tokens that are no comments, in order.
RECURSIVE WithoutComments(_)
WithoutComments(toks) ==
    IF toks = << >> THEN << >>
    ELSE IF Head(toks).Kind = TokenComment THEN WithoutComments(Tail(toks))
    ELSE <<Head(toks)>> \o WithoutComments(Tail(toks))

\* The loop of Assemble has ended, with the program or with its error.
Assembled == phase = "done" \/ (phase = "failed" /\ terr = nil)

\* C19: the result of Assemble for a token list, the program or the error,
\* is the result of its loop for the list without its Comment tokens:
\* a comment adds no word and leaves the pending argument pending.
C19_CommentsDoNotCount ==
    Assembled =>
        LET r == AssembleLoop(NewAssembler, WithoutComments(tokens))
        IN  /\ program = r.program
            /\ aerr = r.err

\* "SETA //x\n5" is assembled to [SETA, 5]: the comment stood between the
\* instruction and its argument.
C19_Witness ==
    /\ phase = "done" /\ input = SampleCommentBeforeArgument
    /\ Len(tokens) = 3 /\ tokens[2].Kind = TokenComment
    /\ program = <<OpSETA, 5>>

\* The loop of Assemble is at a NumberLiteral or RuneLiteral token.
AtLiteral ==
    /\ phase = "assemble" /\ next <= Len(tokens)
    /\ tokens[next].Kind \in {TokenNumberLiteral, TokenRuneLiteral}

\* C20: the loop of Assemble never rejects a NumberLiteral or RuneLiteral
\* token: argument pending or not, its Value becomes the next word of the
\* program, argRequired becomes false and the loop goes on with no error.
C20_LiteralIsAppended ==
    [][AtLiteral =>
          /\ program' = Append(program, tokens[next].Value)
          /\ argRequired' = FALSE
          /\ aerr' = nil
          /\ phase' = "assemble"]_vars

\* A text of two number literals and no instruction is assembled: both
\* are words of the program.
C20_Witness ==
    /\ phase = "done" /\ Len(tokens) = 2
    /\ tokens[1].Kind = TokenNumberLiteral /\ tokens[2].Kind = TokenNumberLiteral
    /\ program = <<5, 5>> /\ ~argRequired

-----------------------------------------------------------------------------
(* Properties of the command: MainRun and AssembleFromFile *)

\* The details an error of the source text is reported with, in the words
\* of either the program or its description.
ErrorDetails ==
    {"expected '/' got '%c'", "unknown instruction %q", "unexpected instruction %q",
     "unexpected EOF in rune literal", "unexpected end of input in rune literal"}

\* <sourceName>:<line>: before a detail, with or without "syntax error: ".
FileErrorForms ==
    {"%s:%d: " \o detail : detail \in ErrorDetails}
      \cup {"%s:%d: syntax error: " \o detail : detail \in ErrorDetails}

\* The line of the lexeme the failed Assemble stopped at: the lexeme of the
\* tokenizer when Tokenize failed, the last token of the loop otherwise.
OffendingLine ==
    IF terr # nil THEN 1 + NewlinesIn(input, start) ELSE tokens[next - 1].Line

\* C12: an error AssembleFromFile returns because of the source text reads
\* <sourceName>:<line>: and a detail, <line> being the bare number of the
\* line of the offending lexeme.
C12_FileErrorForm ==
    (ferr # nil /\ aerr # nil) =>
        /\ ferr.fmt \in FileErrorForms
        /\ ferr.line = OffendingLine

\* C13: when Tokenize or Assemble fails, no token list and no program is
\* returned, not even the part made before the error, and MainRun performs
\* neither Load nor Run: the machine stays as New made it, and MainRun
\* returns 1.
C13_AllOrNothing ==
    phase = "failed" =>
        /\ terr # nil => tokens = << >>
        /\ program = << >>
        /\ Machine = New
        /\ op = 0
        /\ exit \in {"none", "1"}
        /\ exit = "1" => ferr # nil

\* MainRun has returned 1 for a text whose second token is the unexpected
\* instruction: the first word was in the program when Assemble failed.
C13_Witness ==
    /\ phase = "failed" /\ exit = "1"
    /\ terr = nil /\ Len(tokens) >= 2 /\ next = 3
    /\ program = << >> /\ Memory = New.Memory /\ status = "new"

\* Every token of the assembled text is an instruction.
InstructionsOnly == \A k \in 1 .. Len(tokens) : tokens[k].Kind = TokenInstruction

\* C14: for a program assembled from instruction tokens only, loaded and run
\* by MainRun, Run ends in two ways only: it has fetched HALT and returns
\* nil, or it has fetched a word that is no opcode and returns an error.
C14_RunEndsByHaltOrUnknown ==
    [][(status = "running" /\ status' # "running" /\ InstructionsOnly) =>
          \/ status' = "halted" /\ op' = OpHALT
          \/ status' = "error" /\ op' \notin 1 .. 18]_vars

-----------------------------------------------------------------------------
(* The loop program of TestFib *)

\* A after k turns of the loop on a new machine: 1, 1, 2, 3, 5, 8, ...
RECURSIVE FibNumber(_)
FibNumber(k) == IF k <= 1 THEN 1 ELSE FibNumber(k - 1) + FibNumber(k - 2)

\* The loop program with SETI 10 is in memory.
FibTenLoaded == Memory[2] = 10

\* C15: on a new machine the program [INCA, SETI,10, MVAY, ADXY, MVAX, MVYA,
\* DECI, JINZ,3, HALT] runs to HALT: Run returns nil with A = 89 and I = 0;
\* the loop body at 3..9 is entered with I = 10, 9, ..., 1 and with no other
\* I, which is 10 times; and Run ends in no other way.
C15_Fib ==
    /\ [](FibTenLoaded =>
            /\ status \in {"loaded", "running", "halted"}
            /\ (status = "running" /\ P = 3) =>
                  (I \in 1 .. 10 /\ A = FibNumber(10 - I))
            /\ status = "halted" => (A = 89 /\ I = 0 /\ P = 11))
    /\ [][(FibTenLoaded /\ status = "running" /\ P = 3 /\ P' = 3) => I' = I - 1]_vars
    /\ ((FibTenLoaded /\ status = "loaded") ~> (status = "halted" /\ A = 89))

\* The run of the program with SETI 10 has ended after HALT with A = 89.
C15_Witness ==
    /\ FibTenLoaded /\ status = "halted" /\ op = OpHALT
    /\ A = 89 /\ I = 0 /\ X = 55

-----------------------------------------------------------------------------
(* Execution errors *)

\* C21: LDAI whose index, I plus its operand, is no index of Memory makes
\* Run return an error, and A keeps its value.
C21_LDAIOutOfRange ==
    [][(/\ Fetching(OpLDAI) /\ (P + 1) \in DOMAIN Memory
        /\ ((I + Memory[P + 1]) % WordMod) \notin DOMAIN Memory) =>
          /\ status' = "error"
          /\ A' = A]_vars

\* C22: when Run returns an execution error, A, I, X, Y, Z and Memory are
\* as they were when the failing word was fetched, P is the index of that
\* word plus one, and the error names that word.
C22_ErrorKeepsState ==
    [][(status = "running" /\ status' = "error") =>
          /\ UNCHANGED <<Memory, A, I, X, Y, Z, Out>>
          /\ P \in DOMAIN Memory
          /\ P' = P + 1
          /\ op' = Memory[P]]_vars

\* Run has returned "unknown opcode 19" on a machine whose I and Z earlier
\* instructions set.
C22_Witness ==
    /\ status = "error" /\ op = OpJNEQ + 1
    /\ P > 0 /\ Memory[P - 1] = op
    /\ I # 0 /\ Z

-----------------------------------------------------------------------------
(* The output stream *)

\* Run, not in debug mode, takes a turn of its loop.
Turn == status = "running" /\ ~Debug

\* The word w is the code point of a character (a Unicode scalar value).
IsCharacter(w) == w \in 0 .. 55295 \/ w \in 57344 .. 1114111

\* The machine has run the program that writes "Hello World" to its HALT.
HelloWorldHalted ==
    /\ status = "halted"
    /\ \A k \in 1 .. Len(OutProgram(HelloWorld)) :
           Memory[k - 1] = OutProgram(HelloWorld)[k]

\* C23 as stated: not in debug mode, a turn that executes OUTA appends the
\* word A, as the code point of the character written, to the output, and
\* any other turn leaves the output as it is.
C23_AsStated ==
    [][Turn => Out' = IF Fetching(OpOUTA) THEN Append(Out, A) ELSE Out]_vars

\* C23, amended: not in debug mode, a turn that executes OUTA appends one
\* character to the output, the one with code point A when A is the code
\* point of a character and U+FFFD when it is not, and any other turn leaves
\* the output as it is; the program of SETA c / OUTA pairs for "Hello World"
\* closed by HALT has written exactly "Hello World" when it halts.
C23_Output ==
    /\ [][Turn =>
            Out' = IF ~Fetching(OpOUTA) THEN Out
                   ELSE IF IsCharacter(A) THEN Append(Out, A)
                   ELSE Append(Out, 65533)]_vars
    /\ [](HelloWorldHalted => Out = HelloWorld)

C23_Witness == HelloWorldHalted /\ Len(Out) = 11

-----------------------------------------------------------------------------
(* Debug mode *)

\* Run, in debug mode, goes on from ReadLine to the fetch of a turn.
DebugFetch == status = "running" /\ Debug /\ inReader \in {"line", "EOF"}

\* C24: in debug mode Run fetches the instruction of a turn only when the
\* snapshot of that turn has been written and a line has been read from the
\* input stream for that turn: ReadLine has returned a line.
C24_FetchAfterLine ==
    [][(DebugFetch /\ inReader' = "head") => inReader = "line"]_vars

\* Run, in debug mode, writes the snapshot of a turn: it calls g.String(),
\* and String calls DecodeNextInstruction.
Decoding == status = "running" /\ Debug /\ inReader = "head"

\* What C25 has DecodeNextInstruction render for the memory mem at p: the
\* mnemonic of mem[p], and the word mem[p + 1] behind it exactly when the
\* opcode requires an operand.
Rendering(mem, p) ==
    IF RequiresArgument(mem[p])
    THEN OpCodeString(mem[p]) \o <<Space>> \o FormatV(mem[p + 1])
    ELSE OpCodeString(mem[p])

\* The text s ends in the text e.
EndsIn(s, e) ==
    Len(s) >= Len(e) /\ SubSeq(s, Len(s) - Len(e) + 1, Len(s)) = e

\* C25: in every state in which P indexes Memory, the snapshot and its
\* DecodeNextInstruction read only: the call returns, P, the registers and
\* the memory are as before, and the text written ends in the rendering of
\* the next instruction.
C25_DecodeReadsOnly ==
    [][(Decoding /\ P \in DOMAIN Memory) =>
          /\ status' = "running"
          /\ UNCHANGED <<Memory, A, I, P, X, Y, Z>>
          /\ EndsIn(Out', Rendering(Memory, P))]_vars

-----------------------------------------------------------------------------
(* Register arithmetic *)

\* The word an unsigned sum or difference n wraps to; n is off by less than
\* one word length.
Wrapped(n) ==
    IF n < 0 THEN n + 2 ^ WordBits
    ELSE IF n >= 2 ^ WordBits THEN n - 2 ^ WordBits
    ELSE n

\* C26: register arithmetic is unsigned and wraps at the word length: INCA at
\* the greatest word gives A = 0 and DECA at A = 0 gives the greatest word,
\* likewise INCI and DECI on I and ADXY on Y, and none of these instructions
\* makes Run fail.
C26_ArithmeticWraps ==
    [][/\ Fetching(OpINCA) => (A' = Wrapped(A + 1) /\ status' = "running")
       /\ Fetching(OpDECA) => (A' = Wrapped(A - 1) /\ status' = "running")
       /\ Fetching(OpINCI) => (I' = Wrapped(I + 1) /\ status' = "running")
       /\ Fetching(OpDECI) => (I' = Wrapped(I - 1) /\ status' = "running")
       /\ Fetching(OpADXY) => (Y' = Wrapped(Y + X) /\ status' = "running")]_vars

C26_Witness ==
    /\ status = "running"
    /\ op = OpADXY
    /\ X = 2 ^ WordBits - 1
    /\ Y = 2 ^ WordBits - 2

-----------------------------------------------------------------------------
(* Number literals, separators, comments and labels *)

\* The text is one or more decimal digits, with no sign.
IsUnsignedInteger(raw) ==
    /\ raw # << >>
    /\ \A k \in 1 .. Len(raw) : raw[k] \in Digit0 .. (Digit0 + 9)

\* C27: every NumberLiteral token the tokenizer has emitted has a RawToken
\* that is a base-10 integer without a sign, and has the value of that
\* integer as its Value; a lexeme with a sign makes no NumberLiteral.
C27_NumberLiteral ==
    \A k \in 1 .. Len(result) :
        result[k].Kind = TokenNumberLiteral =>
            /\ IsUnsignedInteger(result[k].RawToken)
            /\ result[k].Value = DecimalValue(result[k].RawToken)

\* The text with a space for every tab and every carriage return.
Spaced(text) ==
    [k \in 1 .. Len(text) |->
        IF text[k] \in {Tab, CarriageReturn} THEN Space ELSE text[k]]

\* C28: a tab or a carriage return separates tokens as a space does: a text
\* with tabs or carriage returns tokenizes as the text with spaces in their
\* places does, to the same tokens and with an error or without one alike.
C28_TabsSeparate ==
    (Tokenized /\ \E k \in 1 .. Len(input) : input[k] \in {Tab, CarriageReturn}) =>
        LET spaced == Tokenize(Spaced(input))
        IN  /\ (terr = nil) = (spaced.err = nil)
            /\ tokens = spaced.tokens

\* The places in the text where "//" starts.
CommentStarts(text) ==
    {k \in 1 .. (Len(text) - 1) : text[k] = Slash /\ text[k + 1] = Slash}

\* The first of them.
FirstComment(text) ==
    CHOOSE k \in CommentStarts(text) : \A j \in CommentStarts(text) : k <= j

\* The last character of the line the place k is on.
LineEnd(text, k) ==
    IF \E j \in k .. Len(text) : text[j] = Newline
    THEN (CHOOSE j \in k .. Len(text) :
              text[j] = Newline /\ \A h \in k .. (j - 1) : text[h] # Newline) - 1
    ELSE Len(text)

\* C29: in a text without a quote, the first "//" starts a comment that runs
\* to the end of its line or of the input: when the text before it tokenizes
\* without an error, the tokenizer emits the tokens of that text and then
\* one Comment token holding the text from "//" to the end of the line,
\* whether or not a separator stands before the "//".
C29_CommentAnywhere ==
    (/\ Tokenized
     /\ \A k \in 1 .. Len(input) : input[k] # Quote
     /\ CommentStarts(input) # {}) =>
        LET k == FirstComment(input)
            before == Tokenize(SubSeq(input, 1, k - 1))
            n == Len(before.tokens)
        IN  before.err = nil =>
                /\ Len(result) > n
                /\ SubSeq(result, 1, n) = before.tokens
                /\ result[n + 1].Kind = TokenComment
                /\ result[n + 1].RawToken = SubSeq(input, k, LineEnd(input, k))

\* C30: Assemble supports labels: for "JUMP main;main:" it returns no error
\* and the program [JUMP, 2, 0], the operand being the address the label
\* main is defined at.
C30_Labels ==
    (phase \in {"done", "failed"} /\ input = SampleLabels) =>
        /\ aerr = nil
        /\ program = <<OpJUMP, 2, 0>>

-----------------------------------------------------------------------------
(* The tokenizer as a state machine *)

\* C31: for every text but "" and " ", Tokenize returns an error or at least
\* one token: never an empty token list without an error.
C31_TokenOrError ==
    (Tokenized /\ input \notin {<< >>, <<Space>>}) => (terr # nil \/ tokens # << >>)

\* The turn of the tokenizer that is taken emits one token, or none.
EmitsOne == Len(result') = Len(result) + 1

EmitsNone == result' = result

\* C32: the tokenizer starts in wantToken, and a turn of it stays in its
\* state function without a token and without an error, or makes one of
\* these changes: wantToken to inToken or to the stop, with no token and no
\* error; inToken to wantToken with a token, to inComment or inRuneLiteral
\* with none, or to the stop with a token or else with an error;
\* inRuneLiteral to wantToken with a token or to the stop with an error and
\* no token; inComment to wantToken or to the stop, with a token either way.
C32_StateChanges ==
    /\ [][(phase = "idle" /\ phase' = "tokenize") => state' = "wantToken"]_vars
    /\ [][phase = "tokenize" =>
            \/ state' = state /\ EmitsNone /\ terr' = nil
            \/ /\ state = "wantToken"
               /\ state' \in {"inToken", "nil"}
               /\ EmitsNone /\ terr' = nil
            \/ /\ state = "inToken"
               /\ \/ state' = "wantToken" /\ EmitsOne
                  \/ state' \in {"inComment", "inRuneLiteral"} /\ EmitsNone /\ terr' = nil
                  \/ state' = "nil" /\ EmitsOne
                  \/ state' = "nil" /\ EmitsNone /\ terr' # nil
            \/ /\ state = "inRuneLiteral"
               /\ \/ state' = "wantToken" /\ EmitsOne
                  \/ state' = "nil" /\ EmitsNone /\ terr' # nil
            \/ /\ state = "inComment"
               /\ state' \in {"wantToken", "nil"}
               /\ EmitsOne]_vars

\* Tokenize has returned an instruction and the comment the input ends in.
C32_Witness ==
    /\ phase = "assemble" /\ state = "nil"
    /\ Len(tokens) = 2
    /\ tokens[1].Kind = TokenInstruction
    /\ tokens[2].Kind = TokenComment

-----------------------------------------------------------------------------
(* Operands *)

\* The token is a literal.
IsLiteral(token) == token.Kind \in {TokenRuneLiteral, TokenNumberLiteral}

\* C33: in a program Assemble returns without an error, the word of every
\* instruction that requires an operand is followed at once by the word of a
\* literal: in the tokens that are no comments, a literal token stands
\* behind every such instruction token, so none of them is the last.
C33_OperandFollows ==
    phase = "done" =>
        LET toks == WithoutComments(tokens)
        IN  /\ program = [k \in 1 .. Len(toks) |-> toks[k].Value]
            /\ \A k \in 1 .. Len(toks) :
                   (toks[k].Kind = TokenInstruction /\ RequiresArgument(toks[k].Value)) =>
                       (k < Len(toks) /\ IsLiteral(toks[k + 1]))

\* The case of the word w in the switch of Run calls g.Fetch() in the
\* machine as it is: run with P behind the memory, it panics.
FetchesOperand(w) ==
    Exec(w, [Machine EXCEPT !.P = MemLen(Memory)]).status = "panic"

\* C34: the execution of an opcode fetches an operand word if and only if
\* RequiresArgument is true for the opcode.
C34_ArityAgrees ==
    \A w \in OpCodes : Fetching(w) => (FetchesOperand(w) <=> RequiresArgument(w))

-----------------------------------------------------------------------------
(* What an instruction changes *)

\* Run, not in debug mode, fetches one of the words ws next.
FetchingOneOf(ws) == \E w \in ws : Fetching(w)

\* C35: an instruction changes P and the registers of its effect only: NOOP
\* none; MVAY and ADXY only Y; MVAX only X; MVYA, SETA, INCA, DECA and LDAI
\* only A; SETI, INCI and DECI only I; JINZ, JUMP and JNEQ none; no
\* instruction but CMPI changes Z, and CMPI sets Z to (I = operand), steps
\* P behind the operand and changes no other register.
C35_FrameEffects ==
    [][/\ Fetching(OpNOOP) => UNCHANGED <<A, I, X, Y, Z>>
       /\ FetchingOneOf({OpMVAY, OpADXY}) => UNCHANGED <<A, I, X, Z>>
       /\ Fetching(OpMVAX) => UNCHANGED <<A, I, Y, Z>>
       /\ FetchingOneOf({OpMVYA, OpSETA, OpINCA, OpDECA, OpLDAI}) =>
              UNCHANGED <<I, X, Y, Z>>
       /\ FetchingOneOf({OpSETI, OpINCI, OpDECI}) => UNCHANGED <<A, X, Y, Z>>
       /\ FetchingOneOf({OpJINZ, OpJUMP, OpJNEQ}) => UNCHANGED <<A, I, X, Y, Z>>
       /\ (status = "running" /\ ~Fetching(OpCMPI)) => Z' = Z
       /\ Fetching(OpCMPI) =>
              /\ UNCHANGED <<A, I, X, Y>>
              /\ (P + 1) \in DOMAIN Memory =>
                     (Z' = (I = Memory[P + 1]) /\ P' = P + 2)]_vars

\* CMPI has set Z and JNEQ has been executed behind it.
C35_Witness == status = "running" /\ op = OpJNEQ /\ Z

\* C36: Run never writes to Memory: a step that changes Memory is not a step
\* of a Run, it is a Load that succeeds; so in every state of a Run the
\* memory is the one Run was called with.
C36_RunKeepsMemory ==
    [][Memory' # Memory => (status # "running" /\ status' = "loaded")]_vars

\* Run has executed INCA and HALT, and the program is in memory as loaded.
C36_Witness ==
    /\ status = "halted" /\ A = 1
    /\ Memory[0] = OpINCA /\ Memory[1] = OpHALT

-----------------------------------------------------------------------------
(* Where a lexeme starts and where the tokenizer stops *)

\* The tokenizer leaves wantToken for inToken.
LeavesWantToken == phase = "tokenize" /\ state = "wantToken" /\ state' = "inToken"

\* The RuneLiteral token of the character c on line 1.
RuneToken(c) ==
    [Kind |-> TokenRuneLiteral, Value |-> c, RawToken |-> <<Quote, c, Quote>>,
     Line |-> 1, Col |-> 0]

\* C37: the lexeme of a token starts at the character on which the tokenizer
\* left wantToken for it, so it holds no character of an earlier token: when
\* the tokenizer leaves wantToken, start is the place of that character; and
\* "'a''b'" tokenizes to the two RuneLiteral tokens 'a' and 'b'.
C37_LexemeStartsAfresh ==
    /\ [][LeavesWantToken => start' = pos']_vars
    /\ []((Tokenized /\ input = SampleTwoRunes) =>
              (terr = nil /\ tokens = <<RuneToken(Chr["a"]), RuneToken(Chr["b"])>>))

\* C38: Tokenize returns without an error at the end of the input only: the
\* place of the tokenizer is then the length of the input.
C38_StopsAtEnd == (Tokenized /\ terr = nil) => pos = Len(input)

-----------------------------------------------------------------------------
(* Termination of the tokenizer *)

\* The character at the place of the tokenizer, eof at the end of the input.
AtPos == IF pos >= Len(input) THEN eof ELSE input[pos + 1]

\* The next turn consumes no character without stopping: wantToken is at the
\* first character of a lexeme and backs up to it, or inToken or inComment is
\* at the separator that ends its lexeme and backs up to it.
Stalls ==
    \/ state = "wantToken" /\ AtPos \notin {Newline, Space, Semicolon, eof}
    \/ state = "inToken" /\ AtPos \in {Newline, Space, Semicolon}
    \/ state = "inComment" /\ AtPos = Newline

\* The turns the tokenizer has left at most: two for each character not yet
\* consumed, less one when the next turn is the one that consumes.
TurnsLeft == 2 * (Len(input) - pos) + (IF Stalls THEN 1 ELSE 0)

\* C39: Tokenize terminates on every text: no turn of the tokenizer moves
\* the scan position back; a turn that consumes no character is followed by
\* one that consumes one or stops, so that the number of turns left, at most
\* twice the length of the input and one, goes down with every turn; and a
\* Run that has started returns.
C39_Terminates ==
    /\ [][phase = "tokenize" => pos' >= pos]_vars
    /\ []((phase = "tokenize" /\ state = "wantToken" /\ pos = 0) =>
              TurnsLeft <= 2 * Len(input) + 1)
    /\ [][(phase = "tokenize" /\ phase' = "tokenize") =>
              (TurnsLeft' < TurnsLeft /\ TurnsLeft' >= 0)]_vars
    /\ (phase = "tokenize") ~> (phase # "tokenize")

\* Tokenize has returned the tokens of a text of MaxLexLen characters that it
\* went through from wantToken to inToken and back more than once.
C39_Witness ==
    /\ phase = "assemble" /\ state = "nil"
    /\ Len(input) = MaxLexLen /\ pos = Len(input)
    /\ Len(tokens) = 2

=============================================================================
